---- MODULE Spec2Model ----
(***************************************************************************)
(* Model of the WhatsApp quiz webhook of app.py: the in-memory session     *)
(* store, the /whatsapp handler (start, help, hint, answer), the answer    *)
(* normaliser and the completion summary.                                  *)
(*                                                                         *)
(* Texts are sequences of one-character strings, so that strip(), lower()  *)
(* and indexing s[0], s[1] are computed as Python computes them.           *)
(* Python's 0-based QUESTIONS[i] is QUESTIONS[i + 1] here.                 *)
(***************************************************************************)
EXTENDS Integers, Sequences, FiniteSets, TLC

VARIABLES
    QUESTIONS,  \* the loaded question bank (app.py:89), read-only after load
    sessions,   \* the session store (app.py:16): from_number -> [index, score]
    ev,         \* the request last handled: From, the branch taken, raw_answer
    pre,        \* what sessions.get(From) held when that request arrived
    state,      \* the handler's local `state` dict when it returned
    reply,      \* what the handler returned for that request
    \* requests handled by concurrent threads (SpecConc)
    store,      \* the session store: from_number -> the dict object stored there
    heap,       \* the session dict objects: object -> [index, score]
    threads,    \* each handler thread: the line it is at, and its locals
    \* what each participant has sent and been shown since the last start (SpecHist)
    hist,
    \* a call of normalize_answer or of the summary arithmetic (SpecNormalize, SpecSummary)
    input,      \* the argument
    output,     \* the value returned
    \* start-up (SpecLoad)
    data,       \* what json.load read from questions.json
    error       \* the ValueError load_questions raised

seqVars == <<sessions, ev, pre, state, reply>>

concVars == <<store, heap, threads>>

callVars == <<input, output>>

loadVars == <<data, error>>

vars ==
    <<QUESTIONS, sessions, ev, pre, state, reply, store, heap, threads, hist,
      input, output, data, error>>

-----------------------------------------------------------------------------
(* Bounds of the model *)

MaxQuestions == 2

(* From numbers that send requests *)
Participants == {"p1", "p2"}

(* Handler threads of the server, and the From number whose requests they *)
(* handle at the same time *)
Threads == {"t1", "t2"}

ConcParticipants == {"p1"}

-----------------------------------------------------------------------------
(* Python values *)

\* Python's None for an absent session (sessions.get) and an unset local
None == [none |-> TRUE]

\* normalize_answer's None
NoLetter == "None"

\* Faulty variant of Truthy: tests `is not None` where the code tests truthiness
Truthy_NotNone(opt) == opt # <<>>

\* `x if x else ...` on dict.get(key) of an optional string field: <<>> is
\* None, <<s>> is the string s; None and "" are both false
Truthy(opt) == opt # <<>> /\ opt[1] # ""

WhiteSpace == {" ", "\t", "\n", "\r"}

UpperChars == <<"A","B","C","D","E","F","G","H","I","J","K","L","M",
                "N","O","P","Q","R","S","T","U","V","W","X","Y","Z">>
LowerChars == <<"a","b","c","d","e","f","g","h","i","j","k","l","m",
                "n","o","p","q","r","s","t","u","v","w","x","y","z">>

\* str.lower() and str.upper() of one character, as tables
LowerTable == [c \in {UpperChars[i] : i \in 1..Len(UpperChars)} |->
                 LowerChars[CHOOSE i \in 1..Len(UpperChars) : UpperChars[i] = c]]

UpperTable == [c \in {LowerChars[i] : i \in 1..Len(LowerChars)} |->
                 UpperChars[CHOOSE i \in 1..Len(LowerChars) : LowerChars[i] = c]]

LowerChar(c) == IF c \in DOMAIN LowerTable THEN LowerTable[c] ELSE c

UpperChar(c) == IF c \in DOMAIN UpperTable THEN UpperTable[c] ELSE c

\* str.lower()
Lower(s) == [i \in 1..Len(s) |-> LowerChar(s[i])]

\* str.strip(): drop leading and trailing whitespace
RECURSIVE LStrip(_)
LStrip(s) == IF s # <<>> /\ Head(s) \in WhiteSpace THEN LStrip(Tail(s)) ELSE s

RECURSIVE RStrip(_)
RStrip(s) ==
    IF s # <<>> /\ s[Len(s)] \in WhiteSpace THEN RStrip(SubSeq(s, 1, Len(s) - 1)) ELSE s

Strip(s) == RStrip(LStrip(s))

-----------------------------------------------------------------------------
(* The question bank *)

Letters == <<"A", "B", "C", "D">>

\* allowed_letters / allowed: ["A","B","C","D"][: len(options)]
Allowed(q) == SubSeq(Letters, 1, Len(q.options))

AllowedSet(q) == {Allowed(q)[i] : i \in 1..Len(q.options)}

\* Questions as load_questions leaves them: 2..4 options, an uppercase answer
\* among the allowed letters, optional hint and explanation strings
\* (<<>>: the key is absent). Each is named by its question text.
QuestionPool ==
    { [question |-> "q3", options |-> <<"o1", "o2", "o3">>, answer |-> "A",
       hint |-> <<"clue">>, explanation |-> <<"because">>],
      [question |-> "q4", options |-> <<"o1", "o2", "o3", "o4">>, answer |-> "D",
       hint |-> <<>>, explanation |-> <<>>],
      [question |-> "q2", options |-> <<"o1", "o2">>, answer |-> "B",
       hint |-> <<"">>, explanation |-> <<"">>] }

QuestionNames == {q.question : q \in QuestionPool}

QuestionNamed == [name \in QuestionNames |-> CHOOSE q \in QuestionPool : q.question = name]

\* The banks loaded: every sequence of 1..MaxQuestions questions of the pool,
\* held as the sequence of their names
Banks == UNION {[1..n -> QuestionNames] : n \in 1..MaxQuestions}

\* len(QUESTIONS)
N == Len(QUESTIONS)

\* QUESTIONS[i]
Question(i) == QuestionNamed[QUESTIONS[i + 1]]

\* format_question(i): the question number, the count, and the reply range
format_question(i) ==
    [number |-> i + 1, of |-> N, question |-> Question(i).question,
     last |-> Allowed(Question(i))[Len(Allowed(Question(i)))],
     count |-> Len(Allowed(Question(i)))]

-----------------------------------------------------------------------------
(* normalize_answer *)

\* Faulty variant of digit_map: the digits taken as zero-based positions
digit_map_ZeroBased(s) ==
    IF s = <<"0">> THEN "A"
    ELSE IF s = <<"1">> THEN "B"
    ELSE IF s = <<"2">> THEN "C"
    ELSE IF s = <<"3">> THEN "D"
    ELSE NoLetter

\* digit_map = {"1": "A", "2": "B", "3": "C", "4": "D"}; s in digit_map
digit_map(s) ==
    IF s = <<"1">> THEN "A"
    ELSE IF s = <<"2">> THEN "B"
    ELSE IF s = <<"3">> THEN "C"
    ELSE IF s = <<"4">> THEN "D"
    ELSE NoLetter

\* Faulty variant of Delimiters: the dash left out
Delimiters_NoDash == {")", ".", ":", " "}

\* s[1] in (")", ".", ":", "-", " ")
Delimiters == {")", ".", ":", "-", " "}

normalize_answer(text) ==
    IF text = <<>> THEN NoLetter
    ELSE LET s == Lower(Strip(text)) IN
         IF digit_map(s) # NoLetter THEN digit_map(s)
         ELSE IF s # <<>> /\ s[1] \in {"a", "b", "c", "d"}
                 /\ (Len(s) = 1 \/ s[2] \in Delimiters)
              THEN UpperChar(s[1])
         ELSE NoLetter

-----------------------------------------------------------------------------
(* The session store *)

\* {"index": 0, "score": 0}
NewSession == [index |-> 0, score |-> 0]

\* sessions.get(from_number)
Get(S, p) == IF p \in DOMAIN S THEN S[p] ELSE None

\* Faulty variant of Put: rebinds the store to a dict that holds the one entry
Put_Only(S, p, v) == [q \in {p} |-> v]

\* sessions[from_number] = v, and the in-place update of the dict stored there
Put(S, p, v) == [q \in (DOMAIN S) \cup {p} |-> IF q = p THEN v ELSE S[q]]

\* Faulty variant of Pop: the entry is left in the store
Pop_Missing(S, p) == S

\* sessions.pop(from_number, None)
Pop(S, p) == [q \in (DOMAIN S) \ {p} |-> S[q]]

-----------------------------------------------------------------------------
(* The /whatsapp handler *)

T_start == <<"s", "t", "a", "r", "t">>
T_restart == <<"r", "e", "s", "t", "a", "r", "t">>
T_help == <<"h", "e", "l", "p">>
T_qmark == <<"?">>
T_hint == <<"h", "i", "n", "t">>

\* lower in ("start", "restart")
IsStartCommand(lower) == lower \in {T_start, T_restart}

\* lower in ("help", "?")
IsHelpCommand(lower) == lower \in {T_help, T_qmark}

\* lower == "hint"
IsHintCommand(lower) == lower = T_hint

\* (button_payload or body)
raw_answer(button_payload, body) == IF button_payload # <<>> THEN button_payload ELSE body

\* Faulty variant of is_correct: compares the lowercased input with the uppercase answer
is_correct_Lowered(norm, correct_letter) == LowerChar(norm) = correct_letter

\* is_correct = (norm == correct_letter)
is_correct(norm, correct_letter) == norm = correct_letter

\* Faulty variant of Grade: the score is raised whether or not the answer is correct
Grade_Always(st, correct) == [st EXCEPT !.score = @ + 1]

\* if is_correct: state["score"] += 1
Grade(st, correct) == IF correct THEN [st EXCEPT !.score = @ + 1] ELSE st

\* state["index"] += 1
Advance(st) == [st EXCEPT !.index = @ + 1]

\* Faulty variant of Finished: `>` where the code has `>=`
Finished_OffByOne(st) == st.index > N

\* state["index"] >= len(QUESTIONS)
Finished(st) == st.index >= N

\* Faulty variant of Pct: int((score / total) * 100), which drops the fraction
Pct_Floor(score, total) == (score * 100) \div total

\* round((score / total) * 100): Python rounds a tie to the even integer.
\* A tie needs a total that is a multiple of 8; for the totals below 40 the
\* float quotient of a tie is exact (an odd number of eighths), so the float
\* result is the one computed here on the exact fraction.
Pct(score, total) ==
    LET n == score * 100
        q == n \div total
        r == n % total
    IN IF 2 * r < total THEN q
       ELSE IF 2 * r > total THEN q + 1
       ELSE IF q % 2 = 0 THEN q ELSE q + 1

\* the closing remark chosen by the percentage
Fun(pct) ==
    IF pct = 100 THEN "Perfect"
    ELSE IF pct >= 80 THEN "Great job"
    ELSE IF pct >= 50 THEN "Nice effort"
    ELSE "Keep practicing"

\* Faulty variant of StartBranch: resets the index of an existing session, not its score
StartBranch_KeepScore(S, from) ==
    [sessions |-> Put(S, from, IF from \in DOMAIN S
                               THEN [S[from] EXCEPT !.index = 0] ELSE NewSession),
     state |-> None,
     reply |-> [type |-> "Welcome", total |-> N, question |-> format_question(0)]]

\* Faulty variant of StartBranch: sessions.setdefault, which keeps an existing session
StartBranch_SetDefault(S, from) ==
    [sessions |-> IF from \in DOMAIN S THEN S ELSE Put(S, from, NewSession),
     state |-> None,
     reply |-> [type |-> "Welcome", total |-> N, question |-> format_question(0)]]

\* start / restart: a fresh session, the welcome line and question 0
StartBranch(S, from) ==
    [sessions |-> Put(S, from, NewSession),
     state |-> None,
     reply |-> [type |-> "Welcome", total |-> N, question |-> format_question(0)]]

\* help / ?: the static help text
HelpBranch(S, from) ==
    [sessions |-> S, state |-> None, reply |-> [type |-> "Help"]]

\* Faulty variant of HintBranch: sessions.setdefault, which starts a session for a
\* participant who has none
HintBranch_SetDefault(S, from) ==
    LET S1 == IF from \in DOMAIN S THEN S ELSE Put(S, from, NewSession)
        st == S1[from]
        hint == Question(st.index).hint
    IN [sessions |-> S1, state |-> st,
        reply |-> IF Truthy(hint) THEN [type |-> "Hint", text |-> hint[1]]
                  ELSE [type |-> "NoHint"]]

\* hint: the current question's hint, the fallback, or the start prompt
HintBranch(S, from) ==
    LET st == Get(S, from) IN
    IF st = None
    THEN [sessions |-> S, state |-> None,
          reply |-> [type |-> "StartPrompt", via |-> "hint"]]
    ELSE IF st.index >= N
    THEN [sessions |-> S, state |-> st, reply |-> [type |-> "IndexError"]]
    ELSE LET hint == Question(st.index).hint IN
         [sessions |-> S, state |-> st,
          reply |-> IF Truthy(hint) THEN [type |-> "Hint", text |-> hint[1]]
                    ELSE [type |-> "NoHint"]]

\* the rest of the handler once the answer is normalised: grade, advance,
\* then the summary and the removal of the session, or the next question.
\* QUESTIONS[i] raises IndexError for i >= N: the request fails, and what it
\* wrote to the session dict before that stays written.
GradeBranch(S, from, st, norm) ==
    LET q_index == st.index
        correct_letter == Question(q_index).answer
        ok == is_correct(norm, correct_letter)
        st2 == Advance(Grade(st, ok))
        S2 == Put(S, from, st2)
        expl == Question(q_index).explanation
        feedback == [correct |-> ok, correct_letter |-> correct_letter,
                     explanation |-> IF Truthy(expl) THEN expl ELSE <<>>]
    IN IF Finished(st2)
       THEN [sessions |-> Pop(S2, from), state |-> st2,
             reply |-> [type |-> "Summary", feedback |-> feedback,
                        score |-> st2.score, total |-> N,
                        pct |-> Pct(st2.score, N),
                        fun |-> Fun(Pct(st2.score, N))]]
       ELSE [sessions |-> S2, state |-> st2,
             reply |-> IF st2.index < N
                       THEN [type |-> "NextQuestion", feedback |-> feedback,
                             question |-> format_question(st2.index)]
                       ELSE [type |-> "IndexError"]]

\* Faulty variant of Rejected: the check is missing
Rejected_Never(norm) == FALSE

\* if not norm
Rejected(norm) == norm = NoLetter

\* any other message: an answer to the current question
AnswerBranch(S, from, raw) ==
    LET st == Get(S, from)
        norm == normalize_answer(raw)
    IN IF st = None
       THEN [sessions |-> S, state |-> None,
             reply |-> [type |-> "StartPrompt", via |-> "answer"]]
       ELSE IF Rejected(norm)
       THEN [sessions |-> S, state |-> st, reply |-> [type |-> "Reprompt"]]
       ELSE IF st.index >= N
       THEN [sessions |-> S, state |-> st, reply |-> [type |-> "IndexError"]]
       ELSE GradeBranch(S, from, st, norm)

\* whatsapp(): From, Body and ButtonPayload of the form, on the store S
whatsapp(S, from, form_body, button_payload) ==
    LET body == Strip(form_body)
        lower == Lower(body)
    IN IF IsStartCommand(lower) THEN StartBranch(S, from)
       ELSE IF IsHelpCommand(lower) THEN HelpBranch(S, from)
       ELSE IF IsHintCommand(lower) THEN HintBranch(S, from)
       ELSE AnswerBranch(S, from, raw_answer(button_payload, body))

-----------------------------------------------------------------------------
(* Requests *)

\* Body values sent: commands in mixed case and padded, nothing, letters,
\* a digit, junk
Bodies ==
    { T_start, <<"R", "e", "s", "t", "a", "r", "t">>, T_help, T_qmark,
      <<" ", "H", "i", "n", "t">>,
      <<>>, <<"a">>, <<"B", ")">>, <<"4">>, <<"a", "b">> }

\* ButtonPayload values sent: none, or a button's letter with its label
Payloads == { <<>>, <<"A", ")", " ", "V">> }

Requests == [from : Participants, body : Bodies, payload : Payloads]

\* the branch of the handler a request takes
Command(r) ==
    LET lower == Lower(Strip(r.body)) IN
    IF IsStartCommand(lower) THEN "start"
    ELSE IF IsHelpCommand(lower) THEN "help"
    ELSE IF IsHintCommand(lower) THEN "hint"
    ELSE "answer"

StartRequests == {r \in Requests : Command(r) = "start"}
HelpRequests == {r \in Requests : Command(r) = "help"}
HintRequests == {r \in Requests : Command(r) = "hint"}
AnswerRequests == {r \in Requests : Command(r) = "answer"}

\* the handler's locals that identify the request: From, the branch taken and,
\* on the answer branch, raw_answer
Locals(r) ==
    [from |-> r.from, command |-> Command(r),
     raw |-> IF Command(r) = "answer" THEN raw_answer(r.payload, Strip(r.body)) ELSE <<>>]

NoRequest == [from |-> "", command |-> "", raw |-> <<>>]

\* one POST /whatsapp, handled from its first line to its return
Request(r) ==
    LET out == whatsapp(sessions, r.from, r.body, r.payload) IN
    /\ ev' = Locals(r)
    /\ pre' = Get(sessions, r.from)
    /\ sessions' = out.sessions
    /\ state' = out.state
    /\ reply' = out.reply
    /\ UNCHANGED <<QUESTIONS, concVars, callVars, loadVars>>

Handle(r) == Request(r) /\ UNCHANGED hist

Start == \E r \in StartRequests : Handle(r)

Help == \E r \in HelpRequests : Handle(r)

Hint == \E r \in HintRequests : Handle(r)

Answer == \E r \in AnswerRequests : Handle(r)

\* no request handled yet
InitSeq ==
    /\ sessions = <<>>
    /\ ev = NoRequest
    /\ pre = None
    /\ state = None
    /\ reply = [type |-> "None"]

\* Session dict objects: one per store entry and one per thread that still
\* holds a dict the store has dropped. 0 is None.
ObjIds == 1..(Cardinality(ConcParticipants) + Cardinality(Threads))

\* a thread that is handling no request
Idle ==
    [pc |-> "idle", from |-> "", norm |-> NoLetter, st |-> 0, q_index |-> 0,
     ok |-> FALSE, tmp |-> 0, reply |-> "None"]

\* an empty store, no dict allocated, every thread idle
InitConc ==
    /\ store = <<>>
    /\ heap = [o \in ObjIds |-> None]
    /\ threads = [t \in Threads |-> Idle]

\* nothing recorded, nothing called, nothing read
InitHist == hist = [p \in Participants |-> None]

InitCall == input = None /\ output = None

InitLoad == data = None /\ error = None

Init ==
    /\ QUESTIONS \in Banks
    /\ InitSeq
    /\ InitConc
    /\ InitHist
    /\ InitCall
    /\ InitLoad

Next == Start \/ Help \/ Hint \/ Answer

Spec == Init /\ [][Next]_vars

-----------------------------------------------------------------------------
(* Requests handled one at a time, with a record of what each participant   *)
(* has sent and has been shown since the last start                         *)

\* smaller of two numbers
Min(a, b) == IF a <= b THEN a ELSE b

\* the record of r.from after request r got the reply rep: a start opens a
\* new record; an answer that normalises to a letter is counted, and counted
\* as correct when it is the answer of the question of its rank; a summary
\* is counted; a reply that carries a question sets the question shown.
Recorded(h, r, norm, rep) ==
    LET h1 == IF Command(r) = "start"
              THEN [parsed |-> 0, correct |-> 0, summaries |-> 0, shown |-> 0]
              ELSE IF Command(r) = "answer" /\ norm # NoLetter
              THEN [h EXCEPT !.parsed = Min(@ + 1, N + 1),
                             !.correct = @ + (IF h.parsed < N
                                                 /\ norm = Question(h.parsed).answer
                                              THEN 1 ELSE 0)]
              ELSE h
        h2 == IF rep.type = "Summary"
              THEN [h1 EXCEPT !.summaries = Min(@ + 1, 2)] ELSE h1
    IN IF rep.type \in {"Welcome", "NextQuestion"}
       THEN [h2 EXCEPT !.shown = rep.question.number - 1] ELSE h2

RequestH(r) ==
    /\ Request(r)
    /\ hist' = IF hist[r.from] = None /\ Command(r) # "start" THEN hist
               ELSE [hist EXCEPT ![r.from] =
                        Recorded(hist[r.from], r, normalize_answer(ev'.raw), reply')]

\* one request for each value of the handler's locals: requests with the same
\* From, branch and raw_answer are handled alike
OnePerLocals(X) == {r \in X : r = CHOOSE q \in X : Locals(q) = Locals(r)}

StartRequestsH == OnePerLocals(StartRequests)
HelpRequestsH == OnePerLocals(HelpRequests)
HintRequestsH == OnePerLocals(HintRequests)
AnswerRequestsH == OnePerLocals(AnswerRequests)

StartH == \E r \in StartRequestsH : RequestH(r)

HelpH == \E r \in HelpRequestsH : RequestH(r)

HintH == \E r \in HintRequestsH : RequestH(r)

AnswerH == \E r \in AnswerRequestsH : RequestH(r)

NextHist == StartH \/ HelpH \/ HintH \/ AnswerH

SpecHist == Init /\ [][NextHist]_vars

-----------------------------------------------------------------------------
(* load_questions: questions.json is read, checked entry by entry and        *)
(* normalised; QUESTIONS is bound to the result only if the call returns     *)

\* JSON values: a tag and, for a string, its characters or, for a list, its items
Str(s) == [t |-> "str", v |-> s]
List(xs) == [t |-> "list", v |-> xs]
Num == [t |-> "num", v |-> <<>>]
Null == [t |-> "null", v |-> <<>>]
\* a key the object does not have
Absent == [t |-> "absent", v |-> <<>>]

\* an options list of k strings
Opt(k) == List([i \in 1..k |-> Str(<<"o">>)])

\* an entry that is not an object
NotADict ==
    [dict |-> FALSE, question |-> Absent, options |-> Absent, answer |-> Absent,
     quick_replies |-> Absent, hint |-> Absent, explanation |-> Absent]

\* a valid entry with four options and the answer in lowercase
Base4 ==
    [dict |-> TRUE, question |-> Str(<<"Q", "?">>), options |-> Opt(4),
     answer |-> Str(<<"d">>), quick_replies |-> Absent, hint |-> Absent,
     explanation |-> Absent]

\* a valid entry with two options, quick replies given twice and padded, a
\* hint and an empty explanation
Base2 ==
    [dict |-> TRUE, question |-> Str(<<"Q">>), options |-> Opt(2),
     answer |-> Str(<<"B">>),
     quick_replies |-> List(<<Str(<<" ", "a">>), Str(<<"A">>), Str(<<"b">>)>>),
     hint |-> Str(<<"h">>), explanation |-> Str(<<>>)]

\* the entries a questions.json is made of: the two valid ones and entries
\* that differ from one of them in one field
EntryTable ==
    << <<"ok4", Base4>>,
       <<"ok2", Base2>>,
       <<"not_dict", NotADict>>,
       <<"q_absent", [Base4 EXCEPT !.question = Absent]>>,
       <<"q_num", [Base4 EXCEPT !.question = Num]>>,
       <<"q_empty", [Base4 EXCEPT !.question = Str(<<>>)]>>,
       <<"opts_absent", [Base4 EXCEPT !.options = Absent]>>,
       <<"opts_str", [Base4 EXCEPT !.options = Str(<<"o">>)]>>,
       <<"opts1", [Base4 EXCEPT !.options = Opt(1), !.answer = Str(<<"A">>)]>>,
       <<"opts5", [Base4 EXCEPT !.options = Opt(5)]>>,
       <<"opts_num", [Base4 EXCEPT !.options = List(<<Str(<<"o">>), Num>>)]>>,
       <<"a_absent", [Base4 EXCEPT !.answer = Absent]>>,
       <<"a_num", [Base4 EXCEPT !.answer = Num]>>,
       <<"a_E", [Base4 EXCEPT !.answer = Str(<<"E">>)]>>,
       <<"a_ab", [Base4 EXCEPT !.answer = Str(<<"a", "b">>)]>>,
       <<"a_C_of2", [Base2 EXCEPT !.answer = Str(<<"C">>)]>>,
       <<"qr_null", [Base4 EXCEPT !.quick_replies = Null]>>,
       <<"qr_num", [Base4 EXCEPT !.quick_replies = Num]>>,
       <<"qr_item_num", [Base4 EXCEPT !.quick_replies = List(<<Str(<<"A">>), Num>>)]>>,
       <<"qr_none_valid", [Base2 EXCEPT !.quick_replies = List(<<Str(<<"C">>)>>)]>>,
       <<"qr_four", [Base4 EXCEPT !.quick_replies =
                        List(<<Str(<<"A">>), Str(<<"B">>), Str(<<"C">>), Str(<<"D">>)>>)]>>,
       <<"qr_some_valid", [Base4 EXCEPT !.quick_replies =
                        List(<<Str(<<"c">>), Str(<<"x">>), Str(<<"C", " ">>)>>)]>>,
       <<"hint_num", [Base4 EXCEPT !.hint = Num]>>,
       <<"hint_null", [Base2 EXCEPT !.hint = Null]>>,
       <<"expl_num", [Base2 EXCEPT !.explanation = Num]>> >>

EntryNames == {EntryTable[i][1] : i \in 1..Len(EntryTable)}

EntryNamed ==
    [n \in EntryNames |->
        EntryTable[CHOOSE i \in 1..Len(EntryTable) : EntryTable[i][1] = n][2]]

\* largest number of entries of a questions.json
MaxEntries == 2

\* the contents of questions.json: something that is not a list, or a list
\* of entries, held by their names
Sources ==
    {[t |-> "dict", v |-> <<>>]}
    \cup {[t |-> "list", v |-> es] : es \in UNION {[1..n -> EntryNames] : n \in 0..MaxEntries}}

\* data = json.load(f)
Parsed(src) == [t |-> src.t, v |-> [i \in 1..Len(src.v) |-> EntryNamed[src.v[i]]]]

\* str.upper()
Upper(s) == [i \in 1..Len(s) |-> UpperChar(s[i])]

\* ["A", "B", "C", "D"][: len(opts)]
allowed_letters(opts) == SubSeq(Letters, 1, Len(opts.v))

\* u in allowed_letters, for a string u
InLetters(u, allowed) == Len(u) = 1 /\ \E k \in 1..Len(allowed) : allowed[k] = u[1]

\* the loop of lines 73-77: qr_norm, started from acc
RECURSIVE qr_norm(_, _, _)
qr_norm(xs, allowed, acc) ==
    IF xs = <<>> THEN acc
    ELSE LET u == Strip(Upper(Head(xs).v)) IN
         qr_norm(Tail(xs), allowed,
                 IF InLetters(u, allowed) /\ \A k \in 1..Len(acc) : acc[k].v # u
                 THEN Append(acc, Str(u)) ELSE acc)

\* qr is not None
HasQuickReplies(q) == q.quick_replies.t \notin {"absent", "null"}

\* Faulty variant of QuestionOK: an empty string is refused as well
QuestionOK_NonEmpty(q) == q.question.t = "str" /\ q.question.v # <<>>

\* isinstance(q.get("question"), str)
QuestionOK(q) == q.question.t = "str"

\* isinstance(opts, list) and 2 <= len(opts) <= 4 and all(isinstance(o, str) ...)
OptionsOK(q) ==
    /\ q.options.t = "list"
    /\ Len(q.options.v) >= 2
    /\ Len(q.options.v) <= 4
    /\ \A k \in 1..Len(q.options.v) : q.options.v[k].t = "str"

\* isinstance(ans, str) and ans.upper() in allowed_letters
AnswerOK(q) ==
    /\ q.answer.t = "str"
    /\ InLetters(Upper(q.answer.v), allowed_letters(q.options))

\* the ValueError the body of the loop raises for entry q, or "ok"
Failure(q) ==
    IF ~q.dict THEN "must be an object"
    ELSE IF ~QuestionOK(q) THEN "'question' must be a string"
    ELSE IF ~OptionsOK(q) THEN "'options' must be a list of 2..4 strings"
    ELSE IF ~AnswerOK(q) THEN "'answer' must be one of the allowed letters"
    ELSE IF /\ HasQuickReplies(q)
            /\ ~(/\ q.quick_replies.t = "list"
                 /\ \A k \in 1..Len(q.quick_replies.v) : q.quick_replies.v[k].t = "str")
         THEN "'quick_replies' must be a list of strings if present"
    ELSE IF /\ HasQuickReplies(q)
            /\ Len(qr_norm(q.quick_replies.v, allowed_letters(q.options), <<>>))
                   \notin 1..3
         THEN "'quick_replies' must contain 1..3 unique letters"
    ELSE IF q.hint.t \notin {"absent", "str"} THEN "'hint' must be a string if present"
    ELSE IF q.explanation.t \notin {"absent", "str"}
         THEN "'explanation' must be a string if present"
    ELSE "ok"

\* Faulty variant of Normalised: the answer is stored as given
Normalised_AnswerAsGiven(q) ==
    [q EXCEPT !.quick_replies =
        IF HasQuickReplies(q)
        THEN List(qr_norm(@.v, allowed_letters(q.options), <<>>)) ELSE @]

\* q["answer"] = ans.upper(); q["quick_replies"] = qr_norm
Normalised(q) ==
    [q EXCEPT !.answer = Str(Upper(@.v)),
              !.quick_replies =
                  IF HasQuickReplies(q)
                  THEN List(qr_norm(@.v, allowed_letters(q.options), <<>>)) ELSE @]

\* Faulty variant of Raise: the entries counted from 0
Raise_ZeroBased(i, message) ==
    [returned |-> FALSE, value |-> <<>>,
     error |-> [index |-> i - 1, message |-> message]]

\* raise ValueError(f"Question {i}: ...")
Raise(i, message) ==
    [returned |-> FALSE, value |-> <<>>, error |-> [index |-> i, message |-> message]]

\* for i, q in enumerate(data, start=1): ...; return data
RECURSIVE Loop(_, _)
Loop(d, i) ==
    IF i > Len(d) THEN [returned |-> TRUE, value |-> d, error |-> None]
    ELSE IF Failure(d[i]) # "ok" THEN Raise(i, Failure(d[i]))
    ELSE Loop([d EXCEPT ![i] = Normalised(d[i])], i + 1)

load_questions(src) ==
    IF Parsed(src).t # "list" \/ Parsed(src).v = <<>>
    THEN [returned |-> FALSE, value |-> <<>>,
          error |-> [index |-> 0, message |-> "must be a non-empty list of questions"]]
    ELSE Loop(Parsed(src).v, 1)

\* questions.json as found when the module is imported; QUESTIONS not bound yet
InitLoading ==
    /\ QUESTIONS = <<>>
    /\ InitSeq /\ InitConc /\ InitHist
    /\ input = None
    /\ output = None
    /\ data \in Sources
    /\ error = None

\* QUESTIONS = load_questions(): the name is bound only if the call returns
Load ==
    /\ output = None
    /\ output' = [returned |-> load_questions(data).returned]
    /\ QUESTIONS' = load_questions(data).value
    /\ error' = load_questions(data).error
    /\ UNCHANGED <<seqVars, concVars, hist, input, data>>

NextLoad == Load

SpecLoad == InitLoading /\ [][NextLoad]_vars

-----------------------------------------------------------------------------
(* normalize_answer on its own, applied to every short text                  *)

\* longest text given to normalize_answer
MaxTextLen == 3

\* the characters of the texts: the letters in both cases, digits in and out of
\* the map, the delimiters, a tab and a character that is none of these
Alphabet ==
    {"A", "B", "C", "D", "a", "b", "c", "d", "1", "2", "3", "4", "5",
     ")", ".", ":", "-", " ", "\t", "x"}

Texts == UNION {[1..n -> Alphabet] : n \in 0..MaxTextLen}

\* the argument of a call of normalize_answer
InitNormalize ==
    /\ QUESTIONS = <<>>
    /\ InitSeq /\ InitConc /\ InitHist /\ InitLoad
    /\ input \in Texts
    /\ output = None

\* the call returns
Normalize ==
    /\ output = None
    /\ output' = [value |-> normalize_answer(input)]
    /\ UNCHANGED <<QUESTIONS, seqVars, concVars, hist, input, loadVars>>

NextNormalize == Normalize

SpecNormalize == InitNormalize /\ [][NextNormalize]_vars

-----------------------------------------------------------------------------
(* The percentage and the closing remark of the summary, on their own        *)

\* largest total for which the summary is computed
MaxTotal == 13

\* a final score and a total, as lines 215-216 read them when the quiz ends
InitSummary ==
    /\ QUESTIONS = <<>>
    /\ InitSeq /\ InitConc /\ InitHist /\ InitLoad
    /\ input \in {[score |-> sc, total |-> t] : sc \in 0..MaxTotal, t \in 1..MaxTotal}
    /\ input.score <= input.total
    /\ output = None

\* lines 217-225
Summarise ==
    /\ output = None
    /\ output' = [pct |-> Pct(input.score, input.total),
                  fun |-> Fun(Pct(input.score, input.total))]
    /\ UNCHANGED <<QUESTIONS, seqVars, concVars, hist, input, loadVars>>

NextSummary == Summarise

SpecSummary == InitSummary /\ [][NextSummary]_vars

-----------------------------------------------------------------------------
(* Requests handled by concurrent threads, one line of whatsapp() at a time. *)
(* A step is one read or one write of the store or of a session dict,       *)
(* together with the lines after it that touch only locals.                 *)

\* the requests the threads receive
ConcBodies == {T_start, T_help, <<" ", "H", "i", "n", "t">>, <<"a">>, <<"4">>}

ConcRequests ==
    {r \in Requests : r.from \in ConcParticipants /\ r.body \in ConcBodies /\ r.payload = <<>>}

\* the dict objects something still refers to
Referenced(st, th) ==
    ({st[p] : p \in DOMAIN st} \cup {th[t].st : t \in Threads}) \ {0}

\* an object nothing refers to is freed
Collect(st, th, h) == [o \in ObjIds |-> IF o \in Referenced(st, th) THEN h[o] ELSE None]

\* the next states of the concurrent variables
Becomes(th, st, h) ==
    /\ threads' = th
    /\ store' = st
    /\ heap' = Collect(st, th, h)
    /\ UNCHANGED <<QUESTIONS, seqVars, hist, callVars, loadVars>>

\* thread t moves to line pc with its locals changed to loc
At(t, loc) == [threads EXCEPT ![t] = loc]

\* `return`: the locals die, the response is left to be sent
Returning(t, type) ==
    [threads EXCEPT ![t] = [Idle EXCEPT !.pc = "return", !.from = threads[t].from,
                                        !.reply = type]]

\* lines 154-177: read the form and pick the branch
Receive(t) ==
    /\ threads[t].pc = "idle"
    /\ \E r \in ConcRequests :
         LET loc == [Idle EXCEPT !.from = r.from,
                                 !.norm = normalize_answer(raw_answer(r.payload, Strip(r.body)))]
         IN Becomes(IF Command(r) = "start" THEN At(t, [loc EXCEPT !.pc = "L162"])
                    ELSE IF Command(r) = "help" THEN Returning(t, "Help")
                    ELSE IF Command(r) = "hint" THEN At(t, [loc EXCEPT !.pc = "L178"])
                    ELSE At(t, [loc EXCEPT !.pc = "L186"]),
                    store, heap)

\* line 162: sessions[from_number] = {"index": 0, "score": 0}, a new dict
L162(t) ==
    /\ threads[t].pc = "L162"
    /\ LET st == [q \in (DOMAIN store) \ {threads[t].from} |-> store[q]]
           o == CHOOSE x \in ObjIds :
                    /\ x \notin Referenced(st, threads)
                    /\ \A y \in ObjIds : y \notin Referenced(st, threads) => x <= y
       IN Becomes(Returning(t, "Welcome"), Put(st, threads[t].from, o),
                  [heap EXCEPT ![o] = NewSession])

\* lines 178-180: state = sessions.get(from_number) of the hint branch
L178(t) ==
    /\ threads[t].pc = "L178"
    /\ LET from == threads[t].from IN
       IF from \notin DOMAIN store
       THEN Becomes(Returning(t, "StartPrompt"), store, heap)
       ELSE Becomes(At(t, [threads[t] EXCEPT !.pc = "L181", !.st = store[from]]),
                    store, heap)

\* lines 181-183: q_index = state["index"], then QUESTIONS[q_index]
L181(t) ==
    /\ threads[t].pc = "L181"
    /\ LET q_index == heap[threads[t].st].index IN
       Becomes(Returning(t, IF q_index >= N THEN "IndexError"
                            ELSE IF Truthy(Question(q_index).hint) THEN "Hint"
                            ELSE "NoHint"),
               store, heap)

\* lines 186-194: state = sessions.get(from_number), then normalize_answer
L186(t) ==
    /\ threads[t].pc = "L186"
    /\ LET from == threads[t].from IN
       IF from \notin DOMAIN store
       THEN Becomes(Returning(t, "StartPrompt"), store, heap)
       ELSE IF Rejected(threads[t].norm)
       THEN Becomes(Returning(t, "Reprompt"), store, heap)
       ELSE Becomes(At(t, [threads[t] EXCEPT !.pc = "L197", !.st = store[from]]),
                    store, heap)

\* lines 197-199: q_index = state["index"], QUESTIONS[q_index], is_correct
L197(t) ==
    /\ threads[t].pc = "L197"
    /\ LET o == threads[t].st
           q_index == heap[o].index
       IN IF q_index >= N
          THEN Becomes(Returning(t, "IndexError"), store, heap)
          ELSE LET ok == is_correct(threads[t].norm, Question(q_index).answer) IN
               Becomes(At(t, [threads[t] EXCEPT !.pc = IF ok THEN "L201" ELSE "L207",
                                                !.q_index = q_index, !.ok = ok]),
                       store, heap)

\* line 201, state["score"] += 1: the read and the addition
L201(t) ==
    /\ threads[t].pc = "L201"
    /\ Becomes(At(t, [threads[t] EXCEPT !.pc = "L201w",
                                        !.tmp = heap[threads[t].st].score + 1]),
               store, heap)

\* line 201, state["score"] += 1: the store
L201w(t) ==
    /\ threads[t].pc = "L201w"
    /\ Becomes(At(t, [threads[t] EXCEPT !.pc = "L207", !.tmp = 0]), store,
               [heap EXCEPT ![threads[t].st].score = threads[t].tmp])

\* line 207, state["index"] += 1: the read and the addition
L207(t) ==
    /\ threads[t].pc = "L207"
    /\ Becomes(At(t, [threads[t] EXCEPT !.pc = "L207w",
                                        !.tmp = heap[threads[t].st].index + 1]),
               store, heap)

\* line 207, state["index"] += 1: the store
L207w(t) ==
    /\ threads[t].pc = "L207w"
    /\ Becomes(At(t, [threads[t] EXCEPT !.pc = "L214", !.tmp = 0]), store,
               [heap EXCEPT ![threads[t].st].index = threads[t].tmp])

\* line 214: if state["index"] >= len(QUESTIONS)
L214(t) ==
    /\ threads[t].pc = "L214"
    /\ Becomes(At(t, [threads[t] EXCEPT
                        !.pc = IF Finished(heap[threads[t].st]) THEN "L215" ELSE "L238"]),
               store, heap)

\* lines 215-225: score = state["score"], then the percentage
L215(t) ==
    /\ threads[t].pc = "L215"
    /\ Becomes(At(t, [threads[t] EXCEPT !.pc = "L227",
                                        !.tmp = heap[threads[t].st].score]),
               store, heap)

\* lines 227-230: sessions.pop(from_number, None), then the summary
L227(t) ==
    /\ threads[t].pc = "L227"
    /\ Becomes(Returning(t, "Summary"), Pop(store, threads[t].from), heap)

\* lines 238-239: format_question(state["index"])
L238(t) ==
    /\ threads[t].pc = "L238"
    /\ Becomes(Returning(t, IF heap[threads[t].st].index >= N THEN "IndexError"
                            ELSE "NextQuestion"),
               store, heap)

\* the response is sent and the thread takes the next request
Return(t) ==
    /\ threads[t].pc = "return"
    /\ Becomes(At(t, Idle), store, heap)

NextConc ==
    \E t \in Threads :
        \/ Receive(t)
        \/ L162(t)
        \/ L178(t)
        \/ L181(t)
        \/ L186(t)
        \/ L197(t)
        \/ L201(t)
        \/ L201w(t)
        \/ L207(t)
        \/ L207w(t)
        \/ L214(t)
        \/ L215(t)
        \/ L227(t)
        \/ L238(t)
        \/ Return(t)

SpecConc == Init /\ [][NextConc]_vars

TypeOKConc ==
    /\ DOMAIN store \subseteq ConcParticipants
    /\ \A p \in DOMAIN store : store[p] \in ObjIds /\ heap[store[p]] # None
    /\ \A t \in Threads : threads[t].st # 0 => heap[threads[t].st] # None
    /\ \A o \in ObjIds : heap[o] # None => heap[o].index \in Nat /\ heap[o].score \in Nat

TypeOK ==
    /\ QUESTIONS \in Banks
    /\ DOMAIN sessions \subseteq Participants
    /\ \A p \in DOMAIN sessions : sessions[p].index \in 0..N /\ sessions[p].score \in 0..N

-----------------------------------------------------------------------------
(* Claims about requests handled one at a time (Spec) *)

\* the letter the last request's raw_answer normalises to
Norm == normalize_answer(ev.raw)

\* the last request was an answer from a participant who had a session
AnsweredInSession == ev.command = "answer" /\ pre # None

\* C1: after every request, every session of the store has
\* 0 <= score <= index <= N, N the number of questions of the bank.
C1_ScoreIndexBounds ==
    \A p \in DOMAIN sessions :
        /\ 0 <= sessions[p].score
        /\ sessions[p].score <= sessions[p].index
        /\ sessions[p].index <= N

\* a session that has graded answers, all of them correct
C1_Witness ==
    /\ AnsweredInSession
    /\ ev.from \in DOMAIN sessions
    /\ sessions[ev.from].index = 1
    /\ sessions[ev.from].score = 1

\* C2: an answer that normalises to a letter, from a participant whose session
\* is at (k, s), leaves the session dict at index k + 1 and at score s + 1 if
\* the letter is question k's answer, s otherwise; the store holds that dict
\* unless the quiz ended.
C2_GradedAnswerStep ==
    (AnsweredInSession /\ Norm # NoLetter) =>
        /\ state = [index |-> pre.index + 1,
                    score |-> pre.score
                              + (IF Norm = Question(pre.index).answer THEN 1 ELSE 0)]
        /\ ev.from \in DOMAIN sessions => sessions[ev.from] = state

\* the second question answered correctly after a wrong first answer
C2_Witness ==
    /\ AnsweredInSession
    /\ Norm # NoLetter
    /\ pre = [index |-> 1, score |-> 0]
    /\ Norm = Question(1).answer
    /\ state = [index |-> 2, score |-> 1]

\* C3: an answer that names an option the current question does not have
\* (the digit 4 or the letter D on a question of 3 options) is rejected: the
\* session is unchanged and the question is not graded.
C3_OutOfRangeRejected ==
    (/\ AnsweredInSession
     /\ Norm # NoLetter
     /\ Norm \notin AllowedSet(Question(pre.index))) =>
        /\ Get(sessions, ev.from) = pre
        /\ reply.type = "Reprompt"

\* C4: the request that takes a session's index to N removes the session, so
\* the store never holds a session at index N; a hint or an answer that the
\* participant sends next leaves the store as it is and gets the reply that
\* a participant of an empty store gets, the start prompt.
C4_RemovedAtN ==
    /\ \A p \in DOMAIN sessions : sessions[p].index < N
    /\ (state # None /\ state.index >= N) =>
           /\ reply.type = "Summary"
           /\ ev.from \notin DOMAIN sessions
    /\ reply.type = "Summary" =>
           \A r \in HintRequests \cup AnswerRequests :
               r.from = ev.from =>
                   LET out == whatsapp(sessions, r.from, r.body, r.payload) IN
                   /\ out.sessions = sessions
                   /\ out.reply.type = "StartPrompt"
                   /\ out.reply = whatsapp(<<>>, r.from, r.body, r.payload).reply

\* the last question was graded, the other participant is still playing
C4_Witness ==
    /\ AnsweredInSession
    /\ state # None
    /\ state.index = N
    /\ N = 2
    /\ ev.from \notin DOMAIN sessions
    /\ DOMAIN sessions # {}

\* thread t has read q_index from its session dict and graded the answer, and
\* has not yet finished writing the score and the index back
Grading(t) == threads[t].pc \in {"L201", "L201w", "L207", "L207w"}

\* C5 (SpecConc): two requests of one participant that are handled at the same
\* time never both read the same index k of the same session and grade and
\* advance against it.
C5_SerializedGrading ==
    \A t1, t2 \in Threads :
        (/\ t1 # t2
         /\ Grading(t1)
         /\ Grading(t2)
         /\ threads[t1].st = threads[t2].st) =>
            threads[t1].q_index # threads[t2].q_index

\* C6: start and restart leave the participant's session at (0, 0) whatever
\* it was before, and reply with the welcome line that states N and with
\* question 0; a second start leaves the store as the first left it.
C6_StartResets ==
    ev.command = "start" =>
        /\ ev.from \in DOMAIN sessions
        /\ sessions[ev.from] = [index |-> 0, score |-> 0]
        /\ reply.type = "Welcome"
        /\ reply.total = N
        /\ reply.question.number = 1
        /\ reply.question.question = QUESTIONS[1]
        /\ \A r \in StartRequests :
               r.from = ev.from =>
                   LET out == whatsapp(sessions, r.from, r.body, r.payload) IN
                   /\ out.sessions = sessions
                   /\ out.reply = reply

\* a restart of a session that had progress and score
C6_Witness ==
    /\ ev.command = "start"
    /\ pre = [index |-> 1, score |-> 1]
    /\ sessions[ev.from] = [index |-> 0, score |-> 0]

\* C7: an answer that does not normalise to a letter, from a participant who
\* has a session, gets the re-prompt and leaves the session in the store with
\* its index and score unchanged.
C7_RepromptKeepsSession ==
    (AnsweredInSession /\ Norm = NoLetter) =>
        /\ reply.type = "Reprompt"
        /\ ev.from \in DOMAIN sessions
        /\ sessions[ev.from] = pre

\* an empty message sent in the middle of a quiz
C7_Witness ==
    /\ AnsweredInSession
    /\ ev.raw = <<>>
    /\ pre = [index |-> 1, score |-> 1]
    /\ reply.type = "Reprompt"
    /\ sessions[ev.from] = pre

\* C8: a hint or an answer from a participant who has no session gets the
\* start prompt and leaves the store exactly as it was, whatever the text.
C8_NoSessionNoCreate ==
    /\ (ev.command \in {"hint", "answer"} /\ pre = None) =>
           /\ reply.type = "StartPrompt"
           /\ ev.from \notin DOMAIN sessions
    /\ \A r \in HintRequests \cup AnswerRequests :
           r.from \notin DOMAIN sessions =>
               LET out == whatsapp(sessions, r.from, r.body, r.payload) IN
               /\ out.sessions = sessions
               /\ out.reply.type = "StartPrompt"

\* a valid letter sent by a participant who never started, while another plays
C8_Witness ==
    /\ ev.command = "answer"
    /\ pre = None
    /\ Norm = "A"
    /\ reply.type = "StartPrompt"
    /\ ev.from \notin DOMAIN sessions
    /\ DOMAIN sessions # {}

\* C9: help and hint never change the store; a hint for a session at index k
\* is question k's hint when that hint is a non-empty string, and the
\* no-hint fallback otherwise.
C9_HelpHintFrame ==
    /\ \A r \in HelpRequests \cup HintRequests :
           whatsapp(sessions, r.from, r.body, r.payload).sessions = sessions
    /\ ev.command \in {"help", "hint"} => Get(sessions, ev.from) = pre
    /\ ev.command = "help" => reply.type = "Help"
    /\ (ev.command = "hint" /\ pre # None) =>
           LET hint == Question(pre.index).hint IN
           reply = IF hint # <<>> /\ hint[1] # ""
                   THEN [type |-> "Hint", text |-> hint[1]]
                   ELSE [type |-> "NoHint"]

\* a hint asked on a question whose hint is the empty string
C9_Witness ==
    /\ ev.command = "hint"
    /\ pre # None
    /\ Question(pre.index).hint = <<"">>
    /\ reply.type = "NoHint"
    /\ sessions[ev.from] = pre

\* the store with only p's entry
Only(S, p) == [q \in (DOMAIN S) \cap {p} |-> S[q]]

\* C10: a request from p leaves every other participant's entry of the store
\* as it was, and its reply and p's resulting entry are those the same request
\* gets on the store that holds p's entry alone.
C10_OneSessionPerRequest ==
    \A r \in Requests :
        LET out == whatsapp(sessions, r.from, r.body, r.payload)
            alone == whatsapp(Only(sessions, r.from), r.from, r.body, r.payload)
        IN /\ \A q \in Participants \ {r.from} :
                  Get(out.sessions, q) = Get(sessions, q)
           /\ out.reply = alone.reply
           /\ Get(out.sessions, r.from) = Get(alone.sessions, r.from)

\* a participant starts over while the other one is in the middle of a quiz
C10_Witness ==
    /\ ev.command = "start"
    /\ \E q \in Participants \ {ev.from} :
           /\ q \in DOMAIN sessions
           /\ sessions[q] = [index |-> 1, score |-> 1]

\* C11: with requests handled one at a time, every hint looked up and every
\* answer graded reads the bank at an index k of the session with 0 <= k < N:
\* no request ends in an IndexError.
C11_IndexInBounds ==
    /\ reply.type # "IndexError"
    /\ (/\ pre # None
        /\ \/ ev.command = "hint"
           \/ ev.command = "answer" /\ Norm # NoLetter) =>
           /\ 0 <= pre.index
           /\ pre.index < N
           /\ reply.type \in {"Hint", "NoHint", "NextQuestion", "Summary"}

\* a hint looked up on the last question of a bank of two
C11_Witness ==
    /\ ev.command = "hint"
    /\ pre # None
    /\ N = 2
    /\ pre.index = N - 1
    /\ reply.type \in {"Hint", "NoHint"}

-----------------------------------------------------------------------------
(* Claims about the record of each participant (SpecHist) *)

\* C12 (SpecHist): after a start, the summary is the reply to the N-th answer
\* that normalises to a letter since that start, to no other request, and is
\* sent once; it reports N as the total and, as the score, how many of those
\* N answers were the answer of the question of their rank.
C12_SummaryOnNth ==
    /\ reply.type = "Summary" =>
           /\ hist[ev.from] # None
           /\ ev.command = "answer"
           /\ Norm # NoLetter
           /\ hist[ev.from].parsed = N
           /\ hist[ev.from].summaries = 1
           /\ reply.total = N
           /\ reply.score = hist[ev.from].correct
    /\ (/\ ev.command = "answer"
        /\ Norm # NoLetter
        /\ hist[ev.from] # None
        /\ hist[ev.from].parsed = N) => reply.type = "Summary"
    /\ \A p \in Participants :
           hist[p] # None =>
               /\ hist[p].summaries <= 1
               /\ hist[p].summaries = 1 <=> hist[p].parsed >= N

\* a quiz of two questions ends with one answer right and one wrong
C12_Witness ==
    /\ reply.type = "Summary"
    /\ N = 2
    /\ hist[ev.from] # None
    /\ hist[ev.from].parsed = 2
    /\ hist[ev.from].correct = 1
    /\ reply.score = 1

\* C20 (SpecHist): for every participant who has a session, the question
\* carried by the last reply that carried one (the welcome with question 0,
\* or the feedback with the next question) is the question at the session's
\* index, the one the next answer is graded against.
C20_ShownIsGradedNext ==
    \A p \in DOMAIN sessions :
        /\ hist[p] # None
        /\ hist[p].shown = sessions[p].index

\* a hint asked after the second question was shown
C20_Witness ==
    /\ ev.command = "hint"
    /\ pre # None
    /\ hist[ev.from] # None
    /\ hist[ev.from].shown = 1
    /\ sessions[ev.from].index = 1

-----------------------------------------------------------------------------
(* Claims about the summary's percentage (SpecSummary) *)

\* C13 (SpecSummary): for 0 <= score <= total and total >= 1 the percentage
\* is an integer nearest to score * 100 / total (at most one half away), and
\* the remark is chosen by the partition 100 / 80..99 / 50..79 / below 50;
\* 2 of 3 gives 67 and the third band.
C13_PctNearestAndBand ==
    output # None =>
        LET d == output.pct * input.total - 100 * input.score IN
        /\ 2 * d <= input.total
        /\ -2 * d <= input.total
        /\ output.pct \in 0..100
        /\ output.fun = "Perfect" <=> output.pct = 100
        /\ output.fun = "Great job" <=> output.pct \in 80..99
        /\ output.fun = "Nice effort" <=> output.pct \in 50..79
        /\ output.fun = "Keep practicing" <=> output.pct < 50
        /\ (input.score = 2 /\ input.total = 3) =>
               output.pct = 67 /\ output.fun = "Nice effort"

\* 2 of 3 has been summarised
C13_Witness ==
    /\ output # None
    /\ input.score = 2
    /\ input.total = 3
    /\ output.pct = 67
    /\ output.fun = "Nice effort"

-----------------------------------------------------------------------------
(* Claims about normalize_answer (SpecNormalize) *)

\* positions of the characters of t that are not whitespace
Inked(t) == {i \in 1..Len(t) : t[i] \notin {" ", "\t", "\n", "\r"}}

\* t without the whitespace at its two ends
Trim(t) ==
    IF Inked(t) = {} THEN <<>>
    ELSE SubSeq(t, CHOOSE i \in Inked(t) : \A j \in Inked(t) : i <= j,
                   CHOOSE i \in Inked(t) : \A j \in Inked(t) : i >= j)

\* the letters A.. valid for a question with count options
ValidLetters(count) == {Letters[k] : k \in 1..count}

\* C14 as stated (SpecNormalize): whenever the first character of the input
\* that is not a space is, as written, a valid letter for the option count of
\* the current question, normalize_answer returns that letter, whatever
\* follows it.
C14_VerbatimFirstLetter ==
    output # None =>
        \A count \in 2..4 :
            (Trim(input) # <<>> /\ Trim(input)[1] \in ValidLetters(count)) =>
                output.value = Trim(input)[1]

\* C14 amended (SpecNormalize): when the first character of the trimmed input
\* is one of A..D as written, normalize_answer returns that letter if it is
\* the only character or the next character is one of ) . : - or a space,
\* and returns none if any other character follows it.
C14_LetterThenDelimiter ==
    (output # None /\ Trim(input) # <<>> /\ Trim(input)[1] \in ValidLetters(4)) =>
        IF Len(Trim(input)) = 1 \/ Trim(input)[2] \in {")", ".", ":", "-", " "}
        THEN output.value = Trim(input)[1]
        ELSE output.value = NoLetter

\* a letter, a dash and more text: the letter is returned
C14_Witness ==
    /\ input = <<"B", "-", "x">>
    /\ output # None
    /\ output.value = "B"

\* the reference rules for a text
Reference(text) ==
    LET t == Trim(text) IN
    IF t = <<>> THEN NoLetter
    ELSE IF Len(t) = 1 /\ t[1] \in {"1", "2", "3", "4"}
    THEN Letters[CHOOSE k \in 1..4 : <<"1", "2", "3", "4">>[k] = t[1]]
    ELSE IF /\ t[1] \in {"a", "b", "c", "d", "A", "B", "C", "D"}
            /\ (Len(t) = 1 \/ t[2] \in {")", ".", ":", "-", " "})
    THEN Letters[CHOOSE k \in 1..4 : t[1] \in {Letters[k], <<"a", "b", "c", "d">>[k]}]
    ELSE NoLetter

\* C15 (SpecNormalize): for every text over the alphabet normalize_answer
\* returns what the reference rules give: none for an empty or blank text,
\* A..D for a trimmed text that is one digit 1..4, the uppercase letter for a
\* trimmed text that starts with a..d in either case and is one character
\* long or continues with ) . : - or a space, none otherwise. A letter of
\* A..D followed by one of the five delimiters gives that letter.
C15_AgreesWithReference ==
    output # None =>
        /\ output.value = Reference(input)
        /\ (/\ Len(input) = 2
            /\ input[1] \in ValidLetters(4)
            /\ input[2] \in {")", ".", ":", "-", " "}) => output.value = input[1]

\* a padded digit has been normalised
C15_Witness ==
    /\ input = <<" ", "3", "\t">>
    /\ output # None
    /\ output.value = "C"

-----------------------------------------------------------------------------
(* Claims about load_questions (SpecLoad) *)

\* the entries of the source, in order
Entries == Parsed(data).v

\* the letters among the first k of A..D that the quick replies xs name, in
\* either case and padded or not
Named(xs, k) ==
    {l \in 1..k : \E j \in 1..Len(xs) :
        Trim(xs[j].v) \in {<<Letters[l]>>, <<(<<"a", "b", "c", "d">>)[l]>>}}

\* entry q passes every rule of the loader
Passes(q) ==
    /\ q.dict
    /\ q.question.t = "str"
    /\ q.options.t = "list"
    /\ Len(q.options.v) \in 2..4
    /\ \A k \in 1..Len(q.options.v) : q.options.v[k].t = "str"
    /\ q.answer.t = "str"
    /\ \E l \in 1..Len(q.options.v) :
           q.answer.v \in {<<Letters[l]>>, <<(<<"a", "b", "c", "d">>)[l]>>}
    /\ q.quick_replies.t \notin {"absent", "null"} =>
           /\ q.quick_replies.t = "list"
           /\ \A k \in 1..Len(q.quick_replies.v) : q.quick_replies.v[k].t = "str"
           /\ Cardinality(Named(q.quick_replies.v, Len(q.options.v))) \in 1..3
    /\ q.hint.t \in {"absent", "str"}
    /\ q.explanation.t \in {"absent", "str"}

\* the entries that break a rule
Failing == {i \in 1..Len(Entries) : ~Passes(Entries[i])}

C17_LoadedBankValid ==
    (output # None /\ output.returned) =>
        /\ Len(QUESTIONS) >= 1
        /\ \A i \in 1..Len(QUESTIONS) :
               LET q == QUESTIONS[i] IN
               /\ Len(q.options.v) \in 2..4
               /\ q.answer.t = "str"
               /\ Len(q.answer.v) = 1
               /\ q.answer.v[1] \in ValidLetters(Len(q.options.v))
               /\ q.quick_replies.t \notin {"absent", "null"} =>
                      /\ q.quick_replies.t = "list"
                      /\ Len(q.quick_replies.v) \in 1..3
                      /\ \A j \in 1..Len(q.quick_replies.v) :
                             /\ q.quick_replies.v[j].t = "str"
                             /\ Len(q.quick_replies.v[j].v) = 1
                             /\ q.quick_replies.v[j].v[1]
                                    \in ValidLetters(Len(q.options.v))
                             /\ \A k \in 1..Len(q.quick_replies.v) :
                                    k # j => q.quick_replies.v[k] # q.quick_replies.v[j]

\* a lowercase answer and repeated quick replies have been loaded
C17_Witness ==
    /\ output # None
    /\ output.returned
    /\ data.v = <<"ok4", "ok2">>
    /\ QUESTIONS[1].answer.v = <<"D">>
    /\ Len(QUESTIONS[2].quick_replies.v) = 2

\* C18 as stated (SpecLoad): a source with an entry whose question text is
\* missing, not a string or the empty string is not loaded.
C18_EmptyTextRejected ==
    (/\ output # None
     /\ \E i \in 1..Len(Entries) :
            /\ Entries[i].dict
            /\ \/ Entries[i].question.t # "str"
               \/ Entries[i].question.v = <<>>) =>
        ~output.returned /\ error # None

\* C18 amended (SpecLoad): a source with an entry whose question text is
\* missing or not a string is not loaded; an entry whose text is the empty
\* string passes, and a list of entries that break no other rule is loaded
\* with the empty text kept.
C18_NonStringTextRejected ==
    output # None =>
        /\ (\E i \in 1..Len(Entries) :
                Entries[i].dict /\ Entries[i].question.t # "str") =>
               ~output.returned /\ error # None /\ QUESTIONS = <<>>
        /\ (/\ data.t = "list"
            /\ Failing = {}
            /\ \E i \in 1..Len(Entries) : Entries[i].question = Str(<<>>)) =>
               /\ output.returned
               /\ error = None
               /\ \A i \in 1..Len(Entries) :
                      Entries[i].question = Str(<<>>) => QUESTIONS[i].question = Str(<<>>)

\* an entry with empty text has been loaded
C18_Witness ==
    /\ output # None
    /\ output.returned
    /\ data.v = <<"q_empty">>
    /\ QUESTIONS[1].question.v = <<>>

-----------------------------------------------------------------------------
(* Claims about the bank index under concurrent requests (SpecConc) *)

\* C19 (SpecConc): when requests of one participant are handled at the same
\* time, answers and hints in any mix, no thread reads QUESTIONS at an index
\* that is N or more: no request ends in an IndexError at line 181, 197 or 238.
C19_NoReadPastBank ==
    \A t \in Threads : threads[t].reply # "IndexError"

====
